---- MODULE Spec2Model ----
(***************************************************************************)
(* UnBreakableSVG: scripts/merge-layout.js (the merge run) modelled as a   *)
(* state machine, with its pure text functions modelled on token           *)
(* sequences.                                                              *)
(*                                                                         *)
(* Text.  A JavaScript string is a sequence of tokens; a token is a short  *)
(* string that the regular expressions of the source never split: the      *)
(* literals they look for ("animation", "-duration", "0s", "<svg", ...),   *)
(* the delimiters they stop at (";", "}", ">"), whitespace, and whole      *)
(* attributes (width='128').  The regular expressions are translated to    *)
(* operators over such sequences, with the engine's leftmost, greedy and   *)
(* backtracking behaviour.                                                 *)
(***************************************************************************)
EXTENDS Integers, Sequences, FiniteSets, TLC

VARIABLES
    layoutFile,  \* the file named by --layout: its status and, when JSON, its value
    remotes,     \* out/remotes: file name -> text (the stash of the prefetch step)
    pc,          \* where main() is
    header,      \* canvasW, canvasH and bgFill once computed
    idx,         \* position of `el` in layout.elements (0 before the loop)
    resolved,    \* resolveSvgSource's result for `el`, once it returned
    calls,       \* the I/O and decoding calls made so far, in order
    inflight,    \* elements whose fetch() is awaiting its response
    pieces,      \* the `pieces` array
    warnings,    \* console.warn lines, in order
    outFile,     \* the file named by --out
    outDisk,     \* the directory and file of --out on disk, and the writeFile calls
    exitCode,    \* the process exit code once the process ended
    sanRuns,     \* sanitizer development: <<m, sanitize(m), sanitize(sanitize(m))>>
    parseRun,    \* parser development: a text and, once parsed, extractSvgParts of it
    pf           \* the prefetch run (scripts/fetch-remotes.js) that fills out/remotes

mainVars ==
    <<layoutFile, remotes, pc, header, idx, resolved, calls, inflight, pieces,
      warnings, outFile, outDisk, exitCode>>

\* the variables the merge run never touches
sideVars == <<sanRuns, parseRun, pf>>

vars == <<mainVars, sideVars>>

None == <<>>

Some(v) == <<v>>

(***************************************************************************)
(* Token classes                                                           *)
(***************************************************************************)

\* \s
IsSpace(t) == t = " "

\* whole attributes of an <svg> open tag, as the generators write them
AttrTokens ==
    {"viewBox='0 0 24 24'", "viewBox='4 4 16 16'", "viewBox='0 0 24'",
     "width='128'", "height='32'", "width='50'",
     "preserveAspectRatio='xMidYMid'"}

\* tokens whose first / last character is a word character (\w), for \b
WordFirstTokens ==
    {"animation", "0s", "2s", "x", "spin", "rect", "style='"} \cup AttrTokens

WordLastTokens ==
    {"animation", "-duration", "-delay", "0s", "2s", "x", "spin", "rect", "<svg",
     "</svg", "<?xml"}

\* tokens that hold the character >
GtTokens == {">", "?>", "<style>", "</style>", "<!--c-->", "<!--abcPHN2Zz4-->"}

IsWordFirst(t) == t \in WordFirstTokens

IsWordLast(t) == t \in WordLastTokens

\* \b between s[i-1] and s[i] (i in 1..Len(s)+1)
WordBoundary(s, i) ==
    LET before == i > 1 /\ IsWordLast(s[i - 1])
        after == i <= Len(s) /\ IsWordFirst(s[i])
    IN  before # after

\* \s* from position j: the first position >= j that holds no whitespace
RECURSIVE SkipWs(_, _)
SkipWs(s, j) ==
    IF j <= Len(s) /\ IsSpace(s[j]) THEN SkipWs(s, j + 1) ELSE j

\* the first position >= j holding a token of T, or 0
RECURSIVE FirstIn(_, _, _)
FirstIn(s, j, T) ==
    IF j > Len(s) THEN 0
    ELSE IF s[j] \in T THEN j
    ELSE FirstIn(s, j + 1, T)

TokenAt(s, j, t) == j >= 1 /\ j <= Len(s) /\ s[j] = t

Slice(s, a, b) == IF a > b THEN <<>> ELSE SubSeq(s, a, b)

\* the sequences over S of length at most n
RECURSIVE SeqsUpTo(_, _)
SeqsUpTo(S, n) ==
    IF n = 0 THEN {<<>>}
    ELSE LET shorter == SeqsUpTo(S, n - 1)
         IN  shorter \cup {Append(s, t) : s \in {q \in shorter : Len(q) = n - 1}, t \in S}

(***************************************************************************)
(* sanitizeAnimationOverrides                                              *)
(***************************************************************************)

\* animation-<prop>\s*:\s*0s at p: the position of the 0s token, or 0
ZeroDeclAt(s, p, prop) ==
    IF TokenAt(s, p, "animation") /\ TokenAt(s, p + 1, prop)
    THEN LET q == SkipWs(s, p + 2)
         IN  IF TokenAt(s, q, ":")
             THEN LET k == SkipWs(s, q + 1)
                  IN  IF TokenAt(s, k, "0s") THEN k ELSE 0
             ELSE 0
    ELSE 0

\* /animation-<prop>\s*:\s*0s[^;]*;?/ at i: the last position matched, or 0
DeclZeroEnd(s, i, prop) ==
    LET k == ZeroDeclAt(s, i, prop)
    IN  IF k = 0 THEN 0
        ELSE LET semi == FirstIn(s, k + 1, {";"})
             IN  IF semi = 0 THEN Len(s) ELSE semi

\* the alternative of universalAnimBlock at p, then [^}]*\}: last position, or 0
UniversalTailEnd(s, p) ==
    LET kd == ZeroDeclAt(s, p, "-duration")
        k == IF kd # 0 THEN kd ELSE ZeroDeclAt(s, p, "-delay")
    IN  IF k = 0 \/ ~WordBoundary(s, p) THEN 0
        ELSE LET semi == FirstIn(s, k + 1, {";"})
             IN  IF semi = 0 THEN 0 ELSE FirstIn(s, semi + 1, {"}"})

\* the greedy [^}]* before the alternative: the last p in lo..hi that completes
RECURSIVE LastUniversalTail(_, _, _)
LastUniversalTail(s, lo, hi) ==
    IF hi < lo THEN 0
    ELSE IF UniversalTailEnd(s, hi) # 0 THEN UniversalTailEnd(s, hi)
    ELSE LastUniversalTail(s, lo, hi - 1)

\* universalAnimBlock at i: the last position matched, or 0
UniversalEnd(s, i) ==
    IF ~TokenAt(s, i, "*") THEN 0
    ELSE LET j == SkipWs(s, i + 1)
         IN  IF ~TokenAt(s, j, "{") THEN 0
             ELSE LET close == FirstIn(s, j + 1, {"}"})
                      hi == IF close = 0 THEN Len(s) ELSE close - 1
                  IN  LastUniversalTail(s, j + 1, hi)

\* whether some \b0s\b lies in positions lo..hi
HasZeroToken(s, lo, hi) ==
    \E m \in lo..hi :
        s[m] = "0s" /\ WordBoundary(s, m) /\ WordBoundary(s, m + 1)

\* shorthandZero at i: the last position matched, or 0
ShorthandEnd(s, i) ==
    IF ~TokenAt(s, i, "animation") THEN 0
    ELSE LET j == SkipWs(s, i + 1)
         IN  IF ~TokenAt(s, j, ":") THEN 0
             ELSE LET stop == FirstIn(s, j + 1, {";", "}"})
                      hi == IF stop = 0 THEN Len(s) ELSE stop - 1
                  IN  IF ~HasZeroToken(s, j + 1, hi) THEN 0
                      ELSE IF TokenAt(s, hi + 1, ";") THEN hi + 1 ELSE hi

MatchEnd(re, s, i) ==
    CASE re = "universalAnimBlock" -> UniversalEnd(s, i)
      [] re = "durationZero" -> DeclZeroEnd(s, i, "-duration")
      [] re = "delayZero" -> DeclZeroEnd(s, i, "-delay")
      [] re = "shorthandZero" -> ShorthandEnd(s, i)

\* String.prototype.replace(re, '') with the g flag, scanning from position i
RECURSIVE ReplaceFrom(_, _, _)
ReplaceFrom(re, s, i) ==
    IF i > Len(s) THEN <<>>
    ELSE LET e == MatchEnd(re, s, i)
         IN  IF e = 0 THEN <<s[i]>> \o ReplaceFrom(re, s, i + 1)
             ELSE ReplaceFrom(re, s, e + 1)

RemoveAll(re, s) == ReplaceFrom(re, s, 1)

sanitizeAnimationOverrides(svg) ==
    IF svg = <<>> THEN svg
    ELSE RemoveAll("shorthandZero",
             RemoveAll("delayZero",
                 RemoveAll("durationZero",
                     RemoveAll("universalAnimBlock", svg))))

(***************************************************************************)
(* stripXmlProlog, extractSvgParts                                         *)
(***************************************************************************)

\* String.prototype.includes('<svg')
HasSvgMarker(s) == \E j \in 1..Len(s) : s[j] = "<svg"

RECURSIVE TrimEnd(_)
TrimEnd(s) ==
    IF s # <<>> /\ IsSpace(s[Len(s)]) THEN TrimEnd(SubSeq(s, 1, Len(s) - 1)) ELSE s

\* String.prototype.trim
Trim(s) == TrimEnd(Slice(s, SkipWs(s, 1), Len(s)))

\* s.replace(/^\s*<\?xml[\s\S]*?\?>\s*/i, '').trim()
stripXmlProlog(s) ==
    LET j == SkipWs(s, 1)
        e == IF TokenAt(s, j, "<?xml") THEN FirstIn(s, j + 1, {"?>"}) ELSE 0
    IN  IF e = 0 THEN Trim(s) ELSE Trim(Slice(s, SkipWs(s, e + 1), Len(s)))

\* /<svg([^>]*)>/i : <<position of <svg, position of the token holding >>>, or <<>>
OpenMatch(s) ==
    LET i == FirstIn(s, 1, {"<svg"})
        g == IF i = 0 THEN 0 ELSE FirstIn(s, i + 1, GtTokens)
    IN  IF g = 0 THEN <<>> ELSE <<i, g>>

\* /<\/svg>\s*$/i : the position of </svg, or 0
RECURSIVE CloseMatchFrom(_, _)
CloseMatchFrom(s, j) ==
    IF j + 1 > Len(s) THEN 0
    ELSE IF s[j] = "</svg" /\ s[j + 1] = ">" /\ SkipWs(s, j + 2) = Len(s) + 1 THEN j
    ELSE CloseMatchFrom(s, j + 1)

AttrName(t) ==
    CASE t \in {"viewBox='0 0 24 24'", "viewBox='4 4 16 16'", "viewBox='0 0 24'"} -> "viewBox"
      [] t \in {"width='128'", "width='50'"} -> "width"
      [] t = "height='32'" -> "height"
      [] t = "preserveAspectRatio='xMidYMid'" -> "preserveAspectRatio"

\* m[3] of attrRegex: the value between the quotes
AttrValue(t) ==
    CASE t = "viewBox='0 0 24 24'" -> "0 0 24 24"
      [] t = "viewBox='4 4 16 16'" -> "4 4 16 16"
      [] t = "viewBox='0 0 24'" -> "0 0 24"
      [] t = "width='128'" -> "128"
      [] t = "width='50'" -> "50"
      [] t = "height='32'" -> "32"
      [] t = "preserveAspectRatio='xMidYMid'" -> "xMidYMid"

\* an attribute map that keeps the first occurrence of a name
AttrsFirstWins(tag) ==
    LET at == {j \in 1..Len(tag) : tag[j] \in AttrTokens}
        first(n) == CHOOSE j \in at : AttrName(tag[j]) = n
                        /\ \A k \in at : AttrName(tag[k]) = n => k >= j
    IN  [n \in {AttrName(tag[j]) : j \in at} |-> AttrValue(tag[first(n)])]

\* the while loop over attrRegex: a later attribute overwrites an earlier one
AttrsOf(tag) ==
    LET at == {j \in 1..Len(tag) : tag[j] \in AttrTokens}
        last(n) == CHOOSE j \in at : AttrName(tag[j]) = n
                       /\ \A k \in at : AttrName(tag[k]) = n => k <= j
    IN  [n \in {AttrName(tag[j]) : j \in at} |-> AttrValue(tag[last(n)])]

\* extractSvgParts: [ok |-> FALSE] is the thrown 'No <svg> root element found'
extractSvgParts(svgText) ==
    LET cleaned == stripXmlProlog(svgText)
        openMatch == OpenMatch(cleaned)
    IN  IF openMatch = <<>> THEN [ok |-> FALSE]
        ELSE LET innerStart == openMatch[2] + 1
                 closeMatch == CloseMatchFrom(cleaned, 1)
                 innerEnd == IF closeMatch # 0 THEN closeMatch ELSE Len(cleaned) + 1
             IN  [ok |-> TRUE,
                  inner |-> Slice(cleaned, innerStart, innerEnd - 1),
                  attrs |-> AttrsOf(Slice(cleaned, openMatch[1] + 1, openMatch[2] - 1))]

(***************************************************************************)
(* parseNumeric, getViewBoxString, extractInnerSvgAttributes               *)
(***************************************************************************)

\* Number(String(val)) of the attribute values of the model
NumberOf(val) ==
    CASE val = "128" -> 128
      [] val = "50" -> 50
      [] val = "32" -> 32
      [] val = "24" -> 24
      [] val = "16" -> 16
      [] val = "4" -> 4
      [] val = "0" -> 0

\* x || y on optional numbers: null, undefined and 0 are falsy
OrElse(a, b) == IF a # None /\ a[1] # 0 THEN a ELSE b

\* parseNumeric(attrs[name]): None is null
parseNumeric(attrs, name) ==
    IF name \in DOMAIN attrs THEN Some(NumberOf(attrs[name])) ELSE None

\* a viewBox that is always built from the fallback size
ViewBoxOfFallback(attrs, fallbackW, fallbackH) ==
    "0 0 " \o ToString(fallbackW[1]) \o " " \o ToString(fallbackH[1])

getViewBoxString(attrs, fallbackW, fallbackH) ==
    IF "viewBox" \in DOMAIN attrs THEN attrs["viewBox"]
    ELSE LET w == OrElse(parseNumeric(attrs, "width"), None)
             h == OrElse(parseNumeric(attrs, "height"), None)
         IN  IF w # None /\ h # None
             THEN "0 0 " \o ToString(w[1]) \o " " \o ToString(h[1])
             ELSE IF OrElse(fallbackW, None) # None /\ OrElse(fallbackH, None) # None
             THEN "0 0 " \o ToString(fallbackW[1]) \o " " \o ToString(fallbackH[1])
             ELSE "0 0 100 100"

\* vbMatch[2].trim().split(/[\s,]+/).map(Number)
ViewBoxParts(t) ==
    CASE t = "viewBox='0 0 24 24'" -> <<0, 0, 24, 24>>
      [] t = "viewBox='4 4 16 16'" -> <<4, 4, 16, 16>>
      [] t = "viewBox='0 0 24'" -> <<0, 0, 24>>

\* /<svg[^>]*\b<name>\s*=\s*(['"])?([0-9.]+)/ : the first <svg whose tag holds the
\* attribute, and (the [^>]* being greedy) the last such attribute of that tag
RECURSIVE TagNumber(_, _, _)
TagNumber(s, name, from) ==
    LET i == FirstIn(s, from, {"<svg"})
    IN  IF i = 0 THEN None
        ELSE LET g == FirstIn(s, i + 1, GtTokens)
                 hi == IF g = 0 THEN Len(s) ELSE g - 1
                 at == {j \in (i + 1)..hi : s[j] \in AttrTokens /\ AttrName(s[j]) = name}
             IN  IF at = {} THEN TagNumber(s, name, i + 1)
                 ELSE Some(NumberOf(AttrValue(s[CHOOSE j \in at : \A k \in at : k <= j])))

extractInnerSvgAttributes(svgText) ==
    LET vb == FirstIn(svgText, 1, {t \in AttrTokens : AttrName(t) = "viewBox"})
        parts == IF vb = 0 THEN <<>> ELSE ViewBoxParts(svgText[vb])
    IN  IF Len(parts) = 4
        THEN [width |-> Some(parts[3]), height |-> Some(parts[4])]
        ELSE [width |-> TagNumber(svgText, "width", 1),
              height |-> TagNumber(svgText, "height", 1)]

(***************************************************************************)
(* hexToRgb and the background fill, on strings as character sequences     *)
(***************************************************************************)

HexDigits == {"0", "1", "8", "a", "d", "e", "f"}

HexValue(c) ==
    CASE c = "0" -> 0 [] c = "1" -> 1 [] c = "8" -> 8 [] c = "a" -> 10
      [] c = "d" -> 13 [] c = "e" -> 14 [] c = "f" -> 15

\* parseInt with radix 10: the letters a-f end the number
parseInt10(c1, c2) ==
    IF c1 \in {"0", "1", "8"}
    THEN IF c2 \in {"0", "1", "8"} THEN Some(10 * HexValue(c1) + HexValue(c2))
         ELSE Some(HexValue(c1))
    ELSE IF IsSpace(c1) /\ c2 \in {"0", "1", "8"} THEN Some(HexValue(c2))
    ELSE None

\* parseInt(<<c1, c2>>, 16): leading whitespace skipped, then the longest prefix of
\* hex digits; None is NaN
parseInt16(c1, c2) ==
    IF c1 \in HexDigits
    THEN IF c2 \in HexDigits THEN Some(16 * HexValue(c1) + HexValue(c2))
         ELSE Some(HexValue(c1))
    ELSE IF IsSpace(c1) /\ c2 \in HexDigits THEN Some(HexValue(c2))
    ELSE None

\* hex.replace('#', ''): the first # only
RemoveFirstHash(h) ==
    LET i == FirstIn(h, 1, {"#"})
    IN  IF i = 0 THEN h ELSE Slice(h, 1, i - 1) \o Slice(h, i + 1, Len(h))

\* hexToRgb: None is null; a component is None when parseInt gave NaN
hexToRgb(hex) ==
    IF hex = <<>> THEN None
    ELSE LET t == Trim(RemoveFirstHash(hex))
             h == IF Len(t) = 3 THEN <<t[1], t[1], t[2], t[2], t[3], t[3]>> ELSE t
         IN  IF Len(h) # 6 THEN None
             ELSE Some(<<parseInt16(h[1], h[2]), parseInt16(h[3], h[4]),
                         parseInt16(h[5], h[6])>>)

RECURSIVE Join(_)
Join(s) == IF s = <<>> THEN "" ELSE s[1] \o Join(Tail(s))

\* `${n}` of a colour component
ComponentString(c) == IF c = None THEN "NaN" ELSE ToString(c[1])

\* `${alpha}` of a transparency given in tenths (0.5 is 5)
AlphaString(tenths) ==
    IF tenths % 10 = 0 THEN ToString(tenths \div 10)
    ELSE ToString(tenths \div 10) \o "." \o ToString(tenths % 10)

\* lines 237-242 of main; canvas.backgroundColor is a string here
BackgroundFill(backgroundColor, transparency) ==
    LET bgFill == IF backgroundColor # <<>> THEN backgroundColor
                  ELSE <<"#", "f", "f", "f", "f", "f", "f">>
    IN  IF transparency = None THEN Join(bgFill)
        ELSE LET rgb == hexToRgb(bgFill)
                 alpha == AlphaString(transparency[1])
             IN  IF rgb # None
                 THEN "rgba(" \o ComponentString(rgb[1][1]) \o ", "
                      \o ComponentString(rgb[1][2]) \o ", "
                      \o ComponentString(rgb[1][3]) \o ", " \o alpha \o ")"
                 ELSE "rgba(255,255,255," \o alpha \o ")"

(***************************************************************************)
(* tryBase64Decode, decodeDataUri, sha1Hex                                  *)
(***************************************************************************)

\* documents the environment serves
SvgLogo == <<"<svg", " ", "viewBox='0 0 24 24'", ">", "rect", "</svg", ">">>

SvgBadge == <<"<svg", " ", "width='128'", " ", "height='32'", ">", "rect", "</svg", ">">>

HtmlPage == <<"x">>

\* what Buffer.from(s, 'base64').toString('utf8') gives for text that is no base64
Mojibake == <<"(bytes)">>

\* base64 payloads (standard and URL-safe alphabet) and the text they encode
Base64Text(t) ==
    CASE t \in {"b64(logo)", "b64url(logo)"} -> SvgLogo
      [] t \in {"b64(page)", "b64url(page)"} -> HtmlPage

Base64Payloads == {"b64(logo)", "b64url(logo)", "b64(page)", "b64url(page)"}

\* a comment whose letters, digits, - and / are, at their offset in SvgCarrier, the
\* base64 of <svg> (PHN2Zz4)
CarrierComment == "<!--abcPHN2Zz4-->"

\* Buffer.from(s, 'base64').toString('utf8'): never throws; accepts both alphabets;
\* skips every character outside them and decodes the characters that are left
BufferFromBase64(s) ==
    IF Len(s) = 1 /\ s[1] \in Base64Payloads THEN Base64Text(s[1])
    ELSE IF \E j \in 1..Len(s) : s[j] = CarrierComment
    THEN <<"(bytes)", "<svg", ">", "(bytes)">>
    ELSE Mojibake

\* s.replace(/-/g, '+').replace(/_/g, '/')
StandardAlphabet(s) ==
    [j \in 1..Len(s) |->
        CASE s[j] = "b64url(logo)" -> "b64(logo)"
          [] s[j] = "b64url(page)" -> "b64(page)"
          [] OTHER -> s[j]]

tryBase64Decode(s) ==
    IF s = <<>> THEN <<>>
    ELSE IF HasSvgMarker(BufferFromBase64(s)) THEN BufferFromBase64(s)
    ELSE IF HasSvgMarker(BufferFromBase64(StandardAlphabet(s)))
    THEN BufferFromBase64(StandardAlphabet(s))
    ELSE s

\* decodeURIComponent: None is the thrown URIError
DecodeURIComponent(data) ==
    IF data = <<"pct(badge)">> THEN Some(SvgBadge)
    ELSE IF data = <<"pct(page)">> THEN Some(HtmlPage)
    ELSE IF data = <<"%E0%A4%A">> THEN None
    ELSE Some(data)

\* decodeDataUri: None is null
decodeDataUri(uri) ==
    LET comma == FirstIn(uri, 2, {","})
    IN  IF ~TokenAt(uri, 1, "data:") \/ comma = 0 THEN None
        ELSE LET meta == Slice(uri, 2, comma - 1)
                 data == Slice(uri, comma + 1, Len(uri))
                 isBase64 == \E j \in 1..Len(meta) : meta[j] = ";base64"
             IN  IF isBase64 THEN Some(BufferFromBase64(data))
                 ELSE DecodeURIComponent(data)

sha1Hex(s) == "sha1(" \o Join(s) \o ")"

\* sha1Hex(remote) + '.svg' under out/remotes
StashName(remote) == "out/remotes/" \o sha1Hex(remote) \o ".svg"

\* /^data:/i and /^https?:\/\//i
IsDataUri(remote) == TokenAt(remote, 1, "data:")

IsHttpUrl(remote) == TokenAt(remote, 1, "http://") \/ TokenAt(remote, 1, "https://")

\* el.remoteURL || el.remoteUrl: an empty string is falsy
RemoteOf(el) == IF el.remoteURL # <<>> THEN el.remoteURL ELSE el.remoteUrl

\* el.file || el.localPath
LocalPathOf(el) == IF el.file # "" THEN el.file ELSE el.localPath

\* the repository's files: tryReadFileMaybe gives null for any other path
LocalFiles == [f \in {"assets/logo.svg", "assets/notes.txt"} |->
                  IF f = "assets/logo.svg" THEN SvgLogo ELSE HtmlPage]

\* tryReadFileMaybe: None is null
tryReadFileMaybe(files, path) == IF path \in DOMAIN files THEN Some(files[path]) ELSE None

(***************************************************************************)
(* Layouts                                                                 *)
(***************************************************************************)

SvgBare == <<"<svg", ">", "rect", "</svg", ">">>

SvgWide == <<"<svg", " ", "width='50'", ">", "rect", "</svg", ">">>

SvgBoth ==
    <<"<?xml", "?>", " ", "<svg", " ", "viewBox='4 4 16 16'", " ", "width='128'", " ",
      "height='32'", " ", "preserveAspectRatio='xMidYMid'", ">", "rect", "</svg", ">">>

SvgShortViewBox ==
    <<"<svg", " ", "viewBox='0 0 24'", " ", "width='128'", " ", "height='32'", ">",
      "rect", "</svg", ">">>

\* a generator's static preview: a universal block that zeroes the animations
SvgStatic ==
    <<"<svg", " ", "width='128'", " ", "height='32'", ">", "<style>", "*", " ", "{",
      "animation", "-duration", ":", " ", "0s", ";", "}", "</style>", "rect",
      "</svg", ">">>

\* a zero-second shorthand in the root's own style attribute
SvgInlineAnim ==
    <<"<svg", " ", "style='", "animation", ":", "spin", " ", "0s", "'", ">", "rect",
      "</svg", ">">>

\* plain SVG text that holds a comment
SvgCarrier == <<"<svg", ">", CarrierComment, "</svg", ">">>

\* a download cut off inside the root tag
SvgTruncated == <<"<svg", " ", "width='128'">>

NoPosition == [x |-> None, y |-> None]

NoDimensions == [width |-> None, height |-> None]

\* an element of layout.elements; "" and <<>> are an absent (or empty) field
Element(name, remoteURL, remoteUrl, file, content, position, dimensions) ==
    [name |-> name, remoteURL |-> remoteURL, remoteUrl |-> remoteUrl, file |-> file,
     localPath |-> "", content |-> content, position |-> position,
     dimensions |-> dimensions]

HttpsBadge == <<"https://", "img.example/badge.svg">>

RemoteRefs ==
    {HttpsBadge,
     <<"http://", "img.example/card">>,
     <<"data:", "image/svg+xml", ";base64", ",", "b64(logo)">>,
     <<"data:", "image/svg+xml", ",", "pct(badge)">>,
     <<"data:", "text/html", ",", "pct(page)">>,
     <<"data:", "image/svg+xml", ",", "%E0%A4%A">>,
     <<"data:", "image/svg+xml">>,
     <<"ftp://", "img.example/x.svg">>,
     <<" ">>}

Contents == {<<>>, SvgBare, <<"b64(logo)">>, <<"b64url(logo)">>, <<"b64(page)">>, HtmlPage}

Fragments ==
    {SvgLogo, SvgBadge, SvgBare, SvgWide, SvgBoth, SvgShortViewBox, SvgStatic,
     SvgInlineAnim, SvgTruncated, SvgCarrier}

At(x, y) == [x |-> x, y |-> y]

\* elements of every kind of source, for layouts of several elements
ElementPool ==
    {Element("logo", <<>>, <<>>, "", SvgLogo, At(Some(15), Some(7)), NoDimensions),
     Element("encoded", <<>>, <<>>, "", <<"b64(logo)">>, NoPosition,
             [width |-> Some(200), height |-> Some(80)]),
     Element("badge", <<>>, HttpsBadge, "", <<>>, At(Some(0), Some(40)), NoDimensions),
     Element("card", HttpsBadge, <<>>, "", SvgBadge, At(Some(15), None), NoDimensions),
     Element("file", <<>>, <<>>, "assets/logo.svg", <<>>, NoPosition, NoDimensions),
     Element("gone", <<>>, <<>>, "assets/missing.svg", <<>>, NoPosition, NoDimensions),
     Element("page", <<>>, <<>>, "", HtmlPage, NoPosition, NoDimensions),
     Element("empty", <<>>, <<>>, "", <<>>, NoPosition, NoDimensions)}

\* one element, every combination of sources
SourceElements ==
    {Element("src", rURL, rUrl, f, c, NoPosition, NoDimensions) :
        rURL \in RemoteRefs \cup {<<>>}, rUrl \in {<<>>, HttpsBadge},
        f \in {"", "assets/logo.svg", "assets/notes.txt", "assets/missing.svg"},
        c \in Contents}

\* one inline element, every combination of fragment, position and dimensions
PlacedElements ==
    {Element("inline", <<>>, <<>>, "", c, At(x, y), [width |-> w, height |-> h]) :
        c \in Fragments, x \in {None, Some(0), Some(15)}, y \in {None, Some(7)},
        w \in {None, Some(200)}, h \in {None, Some(80)}}

DefaultCanvas ==
    [width |-> Some(800), height |-> Some(400), colorType |-> "string",
     backgroundColor |-> <<"#", "f", "f", "f", "f", "f", "f">>, transparency |-> None]

MaxElems == 2

MaxColorLen == 3

ColorAlphabet == {"#", "f", "0", "r", " "}

Colors ==
    SeqsUpTo(ColorAlphabet, MaxColorLen)
    \cup {<<"#", "f", "f", "f", "f", "f", "f">>, <<"#", "f", "f", "8", "0", "0", "0">>,
          <<"0", "8", "f", "a", "1", "0">>, <<"r", "e", "d">>, <<"#", "f", "8", "0">>,
          <<"o", "r", "a", "n", "g", "e">>, <<"#", "f", "f", "f", "f">>,
          <<"#", "#", "f", "f", "f", "f", "f", "f">>}

Canvases ==
    {[width |-> w, height |-> Some(400), colorType |-> "string", backgroundColor |-> c,
      transparency |-> a] :
        w \in {None, Some(800)}, c \in Colors, a \in {None, Some(0), Some(5), Some(10)}}
    \cup {[width |-> None, height |-> None, colorType |-> "number",
           backgroundColor |-> <<"1", "2", "3">>, transparency |-> a] :
             a \in {None, Some(5)}}

JsonObject(canvas, elements) ==
    [status |-> "object", canvas |-> canvas, elements |-> elements]

\* a layout file that is missing, is no JSON, or holds the JSON value null
BadLayout(status) == [status |-> status, canvas |-> DefaultCanvas, elements |-> <<>>]

LayoutFiles ==
    {BadLayout(st) : st \in {"missing", "invalid-json", "null"}}
    \cup {JsonObject(DefaultCanvas, es) : es \in SeqsUpTo(ElementPool, MaxElems)}
    \cup {JsonObject(DefaultCanvas, <<e>>) : e \in SourceElements \cup PlacedElements}
    \cup {JsonObject(c, <<>>) : c \in Canvases}

\* out/remotes before the run: empty, or an entry for every reference
Stash(text) == [f \in {StashName(r) : r \in RemoteRefs} |-> text]

Stashes == {[f \in {} |-> <<>>], Stash(SvgBadge), Stash(HtmlPage)}

(***************************************************************************)
(* main(): the merge run                                                   *)
(***************************************************************************)

\* whether some element of the layout names a remote reference
NamesRemote(file) ==
    \E k \in 1..Len(file.elements) :
        file.elements[k].remoteURL # <<>> \/ file.elements[k].remoteUrl # <<>>

\* --out before the run: nothing there, or the file an earlier run wrote
OutDisks ==
    {[dir |-> FALSE, file |-> "absent", writes |-> 0],
     [dir |-> TRUE, file |-> "earlier", writes |-> 0]}

\* no parser development, no prefetch run
NoParseRun == [text |-> <<>>, out |-> None]

NoPrefetch ==
    [pc |-> "off", idx |-> 0, inflight |-> {}, fetches |-> <<>>, saved |-> <<>>,
     warned |-> <<>>, online |-> {}, before |-> [f \in {} |-> <<>>], exitCode |-> None]

Init ==
    /\ layoutFile \in LayoutFiles
    /\ remotes \in IF NamesRemote(layoutFile) THEN Stashes ELSE {[f \in {} |-> <<>>]}
    /\ pc = "readLayout"
    /\ header = None
    /\ idx = 0
    /\ resolved = None
    /\ calls = <<>>
    /\ inflight = {}
    /\ pieces = <<>>
    /\ warnings = <<>>
    /\ outFile = None
    /\ outDisk \in OutDisks
    /\ exitCode = None
    /\ sanRuns = <<>>
    /\ parseRun = NoParseRun
    /\ pf = NoPrefetch

elements == layoutFile.elements

el == elements[idx]

\* a fatal path that leaves with status 0
FatalExitsZero(cause) ==
    /\ pc' = "exited"
    /\ exitCode' = Some([code |-> 0, cause |-> cause])

\* main().catch: console.error('Fatal:', ...) and process.exit(2)
Fatal(cause) ==
    /\ pc' = "exited"
    /\ exitCode' = Some([code |-> 2, cause |-> cause])

\* a run that creates the output directory before it reads the layout
ReadLayoutAfterMkdir ==
    /\ pc = "readLayout"
    /\ outDisk' = [outDisk EXCEPT !.dir = TRUE]
    /\ IF layoutFile.status \in {"missing", "invalid-json"}
       THEN Fatal("layout")
       ELSE pc' = "canvas" /\ UNCHANGED exitCode
    /\ UNCHANGED <<layoutFile, remotes, header, idx, resolved, calls, inflight, pieces,
                   warnings, outFile, sideVars>>

\* line 230: readLayout rejects when the file cannot be read or is no JSON
ReadLayout ==
    /\ pc = "readLayout"
    /\ IF layoutFile.status \in {"missing", "invalid-json"}
       THEN Fatal("layout")
       ELSE pc' = "canvas" /\ UNCHANGED exitCode
    /\ UNCHANGED <<layoutFile, remotes, header, idx, resolved, calls, inflight, pieces,
                   warnings, outFile, outDisk, sideVars>>

\* Math.round(canvas.<side> || dflt)
CanvasSide(side, dflt) == OrElse(side, Some(dflt))[1]

\* lines 232-250: layout.canvas of null and hex.replace of a number throw a TypeError
ComputeHeader ==
    /\ pc = "canvas"
    /\ LET canvas == layoutFile.canvas
       IN  IF layoutFile.status = "null"
              \/ (canvas.colorType = "number" /\ canvas.transparency # None)
           THEN Fatal("TypeError") /\ UNCHANGED header
           ELSE /\ header' =
                     Some([canvasW |-> CanvasSide(canvas.width, 800),
                           canvasH |-> CanvasSide(canvas.height, 200),
                           bgFill |-> IF canvas.colorType = "number"
                                      THEN Join(canvas.backgroundColor)
                                      ELSE BackgroundFill(canvas.backgroundColor,
                                                          canvas.transparency)])
                /\ pc' = "loop"
                /\ UNCHANGED exitCode
    /\ UNCHANGED <<layoutFile, remotes, idx, resolved, calls, inflight, pieces, warnings,
                   outFile, outDisk, sideVars>>

\* line 252: the next element, or the end of the loop
NextElement ==
    /\ pc = "loop"
    /\ IF idx < Len(elements)
       THEN idx' = idx + 1 /\ pc' = "remote"
       ELSE idx' = idx /\ pc' = "write"
    /\ resolved' = None
    /\ UNCHANGED <<layoutFile, remotes, header, calls, inflight, pieces, warnings,
                   outFile, outDisk, exitCode, sideVars>>

\* txt && txt.includes('<svg')
Usable(txt) == txt # None /\ HasSvgMarker(txt[1])

\* a resolver that goes from the remote reference straight to the stash
AfterRemoteSkipsLocal == "stash"

\* the order of the fallbacks in resolveSvgSource
AfterRemote == "local"

AfterLocal == "stash"

AfterStash == "inline"

\* a strategy gave txt: `return txt` when it is usable, else on to the next one
ReturnOrElse(op, arg, txt, next) ==
    /\ calls' = Append(calls, [el |-> idx, op |-> op, arg |-> arg, hit |-> Usable(txt)])
    /\ IF Usable(txt)
       THEN resolved' = txt /\ pc' = "process"
       ELSE resolved' = resolved /\ pc' = next

\* remote && typeof remote === 'string' && remote.trim()
HasRemote(e) == Trim(RemoteOf(e)) # <<>>

\* a resolver that requests the URL and goes on without awaiting the response
TryRemoteNoAwait ==
    /\ pc = "remote"
    /\ inflight' = IF HasRemote(el) /\ IsHttpUrl(RemoteOf(el)) THEN inflight \cup {idx} ELSE inflight
    /\ pc' = AfterRemote
    /\ UNCHANGED <<layoutFile, remotes, header, idx, resolved, calls, pieces, warnings, outFile,
                   outDisk, exitCode, sideVars>>

\* lines 121-134 up to the await: a data: URI is decoded, an http(s) URL is requested
TryRemote ==
    /\ pc = "remote"
    /\ IF HasRemote(el) /\ IsDataUri(RemoteOf(el))
       THEN /\ ReturnOrElse("decodeDataUri", Join(RemoteOf(el)),
                             decodeDataUri(RemoteOf(el)), AfterRemote)
            /\ UNCHANGED inflight
       ELSE IF HasRemote(el) /\ IsHttpUrl(RemoteOf(el))
       THEN /\ inflight' = inflight \cup {idx}
            /\ pc' = "fetching"
            /\ UNCHANGED <<calls, resolved>>
       ELSE pc' = AfterRemote /\ UNCHANGED <<calls, inflight, resolved>>
    /\ UNCHANGED <<layoutFile, remotes, header, idx, pieces, warnings, outFile, outDisk, exitCode,
                   sideVars>>

\* what the server answers with a 2xx status
ResponseBodies == {SvgBadge, HtmlPage, SvgTruncated}

\* the ways fetchTextWithTimeout rejects: a non-2xx status, a network error, the
\* abort of the 12 s timer before the headers or during res.text()
FetchFailures == {"HTTP 404", "network error", "aborted before headers", "aborted in body"}

\* a rejected fetch that reaches main().catch
FetchFailsFatally(failure) ==
    /\ calls' = Append(calls, [el |-> idx, op |-> "fetch", arg |-> Join(RemoteOf(el)),
                                hit |-> FALSE, failure |-> failure])
    /\ Fatal("fetch")
    /\ UNCHANGED resolved

\* a rejected fetch that is tried again
FetchRetries(failure) ==
    /\ calls' = Append(calls, [el |-> idx, op |-> "fetch", arg |-> Join(RemoteOf(el)),
                                hit |-> FALSE, failure |-> failure])
    /\ pc' = "fetching"
    /\ UNCHANGED <<resolved, exitCode>>

\* lines 131-133: the rejection is swallowed, the resolver goes on to the fallbacks
FetchFails(failure) ==
    /\ calls' = Append(calls, [el |-> idx, op |-> "fetch", arg |-> Join(RemoteOf(el)),
                                hit |-> FALSE, failure |-> failure])
    /\ pc' = AfterRemote
    /\ UNCHANGED <<resolved, exitCode>>

\* line 103-104: the response headers arrive (res.ok or not), or fetch rejects
FetchResponds ==
    /\ pc = "fetching"
    /\ \/ pc' = "reading" /\ UNCHANGED <<calls, resolved, inflight, exitCode>>
       \/ /\ \E failure \in {"HTTP 404", "network error"} : FetchFails(failure)
          /\ inflight' = inflight \ {idx}
    /\ UNCHANGED <<layoutFile, remotes, header, idx, pieces, warnings, outFile, outDisk,
                   sideVars>>

\* line 105: res.text() gives the body
BodyArrives ==
    /\ pc = "reading"
    /\ inflight' = inflight \ {idx}
    /\ \E body \in ResponseBodies :
          ReturnOrElse("fetch", Join(RemoteOf(el)), Some(body), AfterRemote)
    /\ UNCHANGED <<layoutFile, remotes, header, idx, pieces, warnings, outFile, outDisk,
                   exitCode, sideVars>>

\* line 101: the timer calls controller.abort() while fetch() or res.text() is awaited
TimerFires ==
    /\ pc \in {"fetching", "reading"}
    /\ FetchFails(IF pc = "fetching" THEN "aborted before headers" ELSE "aborted in body")
    /\ inflight' = inflight \ {idx}
    /\ UNCHANGED <<layoutFile, remotes, header, idx, pieces, warnings, outFile, outDisk,
                   sideVars>>

\* lines 136-142
TryLocal ==
    /\ pc = "local"
    /\ IF LocalPathOf(el) # ""
       THEN ReturnOrElse("readLocal", LocalPathOf(el),
                         tryReadFileMaybe(LocalFiles, LocalPathOf(el)), AfterLocal)
       ELSE pc' = AfterLocal /\ UNCHANGED <<calls, resolved>>
    /\ UNCHANGED <<layoutFile, remotes, header, idx, inflight, pieces, warnings, outFile, outDisk,
                   exitCode, sideVars>>

\* lines 144-150: remote && typeof remote === 'string'
TryStash ==
    /\ pc = "stash"
    /\ IF RemoteOf(el) # <<>>
       THEN ReturnOrElse("readStash", StashName(RemoteOf(el)),
                         tryReadFileMaybe(remotes, StashName(RemoteOf(el))), AfterStash)
       ELSE pc' = AfterStash /\ UNCHANGED <<calls, resolved>>
    /\ UNCHANGED <<layoutFile, remotes, header, idx, inflight, pieces, warnings, outFile, outDisk,
                   exitCode, sideVars>>

\* lines 152-155
TryInline ==
    /\ pc = "inline"
    /\ calls' = Append(calls, [el |-> idx, op |-> "tryBase64Decode", arg |-> Join(el.content),
                                hit |-> HasSvgMarker(tryBase64Decode(el.content))])
    /\ resolved' = Some(tryBase64Decode(el.content))
    /\ pc' = "process"
    /\ UNCHANGED <<layoutFile, remotes, header, idx, inflight, pieces, warnings, outFile, outDisk,
                   exitCode, sideVars>>

\* lines 266-291: the nested <svg> of one element
ElementFragment(e, i, inner, attrs, svgText) ==
    LET fallback == extractInnerSvgAttributes(svgText)
        finalW == OrElse(OrElse(e.dimensions.width, fallback.width), Some(100))
        finalH == OrElse(OrElse(e.dimensions.height, fallback.height), Some(100))
    IN  [tag |-> "svg",
         el |-> i,
         x |-> OrElse(e.position.x, Some(0))[1],
         y |-> OrElse(e.position.y, Some(0))[1],
         width |-> finalW[1],
         height |-> finalH[1],
         viewBox |-> getViewBoxString(attrs, finalW, finalH),
         preserveAspectRatio |->
             IF "preserveAspectRatio" \in DOMAIN attrs
             THEN Some(attrs["preserveAspectRatio"]) ELSE None,
         inner |-> inner]

Warning(message) == [el |-> idx, name |-> el.name, message |-> message]

\* a catch block that lets the error reach main().catch
CatchRethrows(message) ==
    /\ Fatal("element")
    /\ UNCHANGED <<warnings, pieces>>

\* lines 294-296: the catch block of the loop body warns, and the loop goes on
CatchElementError(message) ==
    /\ warnings' = Append(warnings, Warning(message))
    /\ pc' = "loop"
    /\ UNCHANGED <<pieces, exitCode>>

\* lines 256-293: the rest of the try block
ProcessElement ==
    /\ pc = "process"
    /\ LET svgText == stripXmlProlog(sanitizeAnimationOverrides(resolved[1]))
           parts == extractSvgParts(svgText)
       IN  IF resolved[1] = <<>>
           THEN CatchElementError("No SVG source available for element")
           ELSE IF ~parts.ok
           THEN CatchElementError("No <svg> root element found")
           ELSE /\ pieces' = Append(pieces,
                        ElementFragment(el, idx, parts.inner, parts.attrs, svgText))
                /\ pc' = "loop"
                /\ UNCHANGED <<warnings, exitCode>>
    /\ UNCHANGED <<layoutFile, remotes, header, idx, resolved, calls, inflight, outFile, outDisk,
                   sideVars>>

\* line 246: the background rectangle
BackgroundRect ==
    [tag |-> "rect", width |-> header[1].canvasW, height |-> header[1].canvasH,
     fill |-> header[1].bgFill]

\* the rectangle written after the pieces
MergedRectLast ==
    [width |-> header[1].canvasW,
     height |-> header[1].canvasH,
     children |-> pieces \o <<BackgroundRect>>]

\* header + pieces.join('\n') + footer: the root <svg> and its children in order
Merged ==
    [width |-> header[1].canvasW,
     height |-> header[1].canvasH,
     children |-> <<BackgroundRect>> \o pieces]

\* lines 303-306: mkdir and writeFile succeed, or mkdir rejects, or writeFile
\* rejects and leaves the file as it was or cut short
WriteOutput ==
    /\ pc = "write"
    /\ \/ /\ outFile' = Some(Merged)
          /\ outDisk' = [dir |-> TRUE, file |-> "merged", writes |-> outDisk.writes + 1]
          /\ pc' = "exited"
          /\ exitCode' = Some([code |-> 0, cause |-> "none"])
       \/ Fatal("output") /\ UNCHANGED <<outFile, outDisk>>
       \/ /\ Fatal("output")
          /\ \E left \in {outDisk.file, "truncated"} :
                outDisk' = [dir |-> TRUE, file |-> left, writes |-> outDisk.writes + 1]
          /\ UNCHANGED outFile
    /\ UNCHANGED <<layoutFile, remotes, header, idx, resolved, calls, inflight, pieces,
                   warnings, sideVars>>

Next ==
    \/ ReadLayout
    \/ ComputeHeader
    \/ NextElement
    \/ TryRemote
    \/ FetchResponds
    \/ BodyArrives
    \/ TimerFires
    \/ TryLocal
    \/ TryStash
    \/ TryInline
    \/ ProcessElement
    \/ WriteOutput

Spec == Init /\ [][Next]_vars

(***************************************************************************)
(* scripts/fetch-remotes.js: the prefetch run, and the merge run after it  *)
(*                                                                         *)
(* pf holds the prefetch run: where its main() is (pc), the position of    *)
(* `el` (idx), the elements whose fetch() is awaited (inflight), the       *)
(* decodeDataUri and fetch calls made (fetches), the files written (saved),*)
(* the console.warn lines (warned), the URLs that answer with SVG while it *)
(* runs (online), out/remotes as it found it (before), and its exit code.  *)
(***************************************************************************)

HttpRefs == {r \in RemoteRefs : IsHttpUrl(r)}

\* everything but out/remotes and pf
pfFrame ==
    <<layoutFile, pc, header, idx, resolved, calls, inflight, pieces, warnings, outFile,
      outDisk, exitCode, sanRuns, parseRun>>

PrefetchExited(from, code) == [from EXCEPT !.pc = "exited", !.exitCode = Some(code)]

PrefetchWarned(from, i, message) ==
    [from EXCEPT !.warned = Append(@, [el |-> i, message |-> message])]

\* lines 76-84: readJson, the early return for no elements, ensureDir
PrefetchReadJson ==
    /\ pf.pc = "readJson"
    /\ IF layoutFile.status # "object" THEN pf' = PrefetchExited(pf, 2)
       ELSE IF elements = <<>> THEN pf' = PrefetchExited(pf, 0)
       ELSE \/ pf' = [pf EXCEPT !.pc = "loop"]
            \/ pf' = PrefetchExited(pf, 2)
    /\ UNCHANGED <<remotes, pfFrame>>

\* a store that writes whatever text it was given
PrefetchStoreAnyText(from, i, url, svgText) ==
    /\ remotes' = (StashName(url) :> svgText[1]) @@ remotes
    /\ pf' = [from EXCEPT !.saved =
                  Append(@, [el |-> i, url |-> url, file |-> StashName(url),
                             text |-> svgText[1]])]

\* lines 104-115: text that is no SVG throws and is warned about; SVG text is
\* written under sha1Hex(url) + '.svg', or writeFile rejects and is warned about
PrefetchStore(from, i, url, svgText) ==
    IF ~Usable(svgText)
    THEN /\ pf' = PrefetchWarned(from, i, "Fetched content is not SVG text")
         /\ UNCHANGED remotes
    ELSE \/ /\ remotes' = (StashName(url) :> svgText[1]) @@ remotes
            /\ pf' = [from EXCEPT !.saved =
                          Append(@, [el |-> i, url |-> url, file |-> StashName(url),
                                     text |-> svgText[1]])]
         \/ /\ pf' = PrefetchWarned(from, i, "writeFile rejected")
            /\ UNCHANGED remotes

\* lines 87-102 and 118: the next element up to its await, or the end of the loop
PrefetchNext ==
    /\ pf.pc = "loop"
    /\ IF pf.idx = Len(elements)
       THEN pf' = PrefetchExited(pf, 0) /\ UNCHANGED remotes
       ELSE LET i == pf.idx + 1
                url == elements[i].remoteUrl
                at == [pf EXCEPT !.idx = i]
                called(op) == [at EXCEPT !.fetches = Append(@, [el |-> i, op |-> op, url |-> url])]
            IN  IF Trim(url) = <<>> THEN pf' = at /\ UNCHANGED remotes
                ELSE IF IsDataUri(url)
                THEN IF decodeDataUri(url) = None
                     THEN /\ pf' = PrefetchWarned(called("decodeDataUri"), i,
                                                  "Failed to decode data URI")
                          /\ UNCHANGED remotes
                     ELSE PrefetchStore(called("decodeDataUri"), i, url, decodeDataUri(url))
                ELSE IF IsHttpUrl(url)
                THEN /\ pf' = [called("fetch") EXCEPT !.pc = "fetching", !.inflight = @ \cup {i}]
                     /\ UNCHANGED remotes
                ELSE /\ pf' = PrefetchWarned(at, i, "Skipping unsupported remoteUrl")
                     /\ UNCHANGED remotes
    /\ UNCHANGED pfFrame

\* the rejections of fetchTextWithTimeout the prefetch run tells apart in its warning:
\* the 'HTTP <status>' it throws itself, and the error fetch rejects with
PrefetchFailures == {"HTTP 404", "network error"}

\* what a URL answers during the prefetch run: SVG when it is online
PrefetchBodies(url) == IF url \in pf.online THEN {SvgBadge} ELSE {HtmlPage}

\* fetchTextWithTimeout settles: a 2xx body, or (for a URL that is not online) a rejection
PrefetchSettles ==
    /\ pf.pc = "fetching"
    /\ LET i == pf.idx
           url == elements[i].remoteUrl
           back == [pf EXCEPT !.pc = "loop", !.inflight = @ \ {i}]
       IN  \/ \E body \in PrefetchBodies(url) : PrefetchStore(back, i, url, Some(body))
           \/ /\ url \notin pf.online
              /\ \E failure \in PrefetchFailures : pf' = PrefetchWarned(back, i, failure)
              /\ UNCHANGED remotes
    /\ UNCHANGED pfFrame

\* the workflow runs the merge step once the prefetch step has ended
StartMerge ==
    /\ pf.pc = "exited"
    /\ pc = "waiting"
    /\ pc' = "readLayout"
    /\ UNCHANGED <<layoutFile, remotes, header, idx, resolved, calls, inflight, pieces,
                   warnings, outFile, outDisk, exitCode, sideVars>>

\* elements with a reference under remoteUrl, under remoteURL, or under neither
PrefetchElements ==
    {Element("ref", rURL, rUrl, "", c, NoPosition, NoDimensions) :
        rURL \in {<<>>, HttpsBadge}, rUrl \in RemoteRefs \cup {<<>>}, c \in {SvgBare}}

PrefetchPool == {e \in ElementPool : e.name \in {"badge", "card"}}

\* out/remotes before the prefetch run: empty, or entries of an earlier run
PipelineStashes == {[f \in {} |-> <<>>], Stash(SvgLogo)}

PipelineLayouts ==
    {BadLayout(st) : st \in {"missing", "invalid-json", "null"}}
    \cup {JsonObject(DefaultCanvas, es) : es \in SeqsUpTo(PrefetchPool, MaxElems)}
    \cup {JsonObject(DefaultCanvas, <<e>>) : e \in PrefetchElements}
    \cup {JsonObject(DefaultCanvas, <<e, b>>) :
              e \in {r \in PrefetchElements : r.remoteURL = <<>> /\ IsDataUri(r.remoteUrl)},
              b \in {r \in PrefetchPool : r.name = "badge"}}

InitPipeline ==
    /\ layoutFile \in PipelineLayouts
    /\ remotes \in IF NamesRemote(layoutFile) THEN PipelineStashes ELSE {[f \in {} |-> <<>>]}
    /\ pf \in {[NoPrefetch EXCEPT !.pc = "readJson", !.online = on, !.before = remotes] :
                  on \in IF NamesRemote(layoutFile) THEN {{}, HttpRefs} ELSE {{}}}
    /\ pc = "waiting"
    /\ header = None
    /\ idx = 0
    /\ resolved = None
    /\ calls = <<>>
    /\ inflight = {}
    /\ pieces = <<>>
    /\ warnings = <<>>
    /\ outFile = None
    /\ outDisk = [dir |-> FALSE, file |-> "absent", writes |-> 0]
    /\ exitCode = None
    /\ sanRuns = <<>>
    /\ parseRun = NoParseRun

NextPipeline ==
    \/ PrefetchReadJson
    \/ PrefetchNext
    \/ PrefetchSettles
    \/ StartMerge
    \/ Next

SpecPipeline == InitPipeline /\ [][NextPipeline]_vars

(***************************************************************************)
(* Properties of the merge run                                             *)
(***************************************************************************)

Resolving == {"remote", "fetching", "reading", "local", "stash", "inline", "process"}

\* the number of elements the loop has finished with
Finished == IF pc \in Resolving THEN idx - 1 ELSE idx

PiecesOf(k) == {j \in 1..Len(pieces) : pieces[j].el = k}

WarningsOf(k) == {j \in 1..Len(warnings) : warnings[j].el = k}

ExitedWith(code) == exitCode # None /\ exitCode[1].code = code

\* C1: a failing element never stops the run.  Every element the loop has finished
\* with left either its piece or exactly one warning (so the elements after a
\* failing one were processed), the loop ends only after the last element, the
\* run ends in the fatal path only before the loop or at the write of the output,
\* and unless that write itself fails the output is written and the exit code is 0.
C1_FailureIsolation ==
    /\ \A k \in 1..Finished : Cardinality(PiecesOf(k)) + Cardinality(WarningsOf(k)) = 1
    /\ Len(pieces) + Len(warnings) = Finished
    /\ (pc = "write" \/ (pc = "exited" /\ header # None)) => idx = Len(elements)
    /\ ExitedWith(2) => (header = None \/ exitCode[1].cause = "output")
    /\ (pc = "exited" /\ header # None /\ exitCode[1].cause # "output")
           => (outFile # None /\ ExitedWith(0))

\* a run of two elements whose first failed and whose second gave its piece
C1_Witness ==
    /\ ExitedWith(0)
    /\ outFile # None
    /\ Len(elements) = 2
    /\ WarningsOf(1) # {}
    /\ PiecesOf(2) # {}

Warned == {warnings[j].el : j \in 1..Len(warnings)}

\* C2: the written document is the root sized to the canvas, the background
\* rectangle first, then one nested <svg> for each element that was not warned
\* about, in the order of layout.elements; a warned element contributes nothing;
\* and the run that wrote it exits with code 0.
C2_OutputDocument ==
    outFile # None =>
        LET doc == outFile[1]
            n == Len(elements)
            last == Len(doc.children)
        IN  /\ ExitedWith(0)
            /\ doc.width = CanvasSide(layoutFile.canvas.width, 800)
            /\ doc.height = CanvasSide(layoutFile.canvas.height, 200)
            /\ doc.children[1].tag = "rect"
            /\ doc.children[1].width = doc.width
            /\ doc.children[1].height = doc.height
            /\ \A j \in 2..last : doc.children[j].tag = "svg"
            /\ \A j \in 2..(last - 1) : doc.children[j].el < doc.children[j + 1].el
            /\ {doc.children[j].el : j \in 2..last} = (1..n) \ Warned
            /\ last - 1 = n - Cardinality(Warned)

\* two elements, the fetch of one failed and it has no other source: one nested
\* <svg>, one warning, exit code 0
C2_Witness ==
    /\ outFile # None
    /\ ExitedWith(0)
    /\ Len(elements) = 2
    /\ Len(outFile[1].children) = 2
    /\ Len(warnings) = 1
    /\ \E j \in 1..Len(calls) :
          calls[j].op = "fetch" /\ ~calls[j].hit /\ calls[j].el \in Warned

Rank(op) ==
    CASE op = "decodeDataUri" -> 1
      [] op = "fetch" -> 2
      [] op = "readLocal" -> 3
      [] op = "readStash" -> 4
      [] op = "tryBase64Decode" -> 5

\* the strategies an element's fields call for
Applicable(e) ==
    (IF HasRemote(e) /\ IsDataUri(RemoteOf(e)) THEN {"decodeDataUri"} ELSE {})
    \cup (IF HasRemote(e) /\ IsHttpUrl(RemoteOf(e)) THEN {"fetch"} ELSE {})
    \cup (IF LocalPathOf(e) # "" THEN {"readLocal"} ELSE {})
    \cup (IF RemoteOf(e) # <<>> THEN {"readStash"} ELSE {})
    \cup {"tryBase64Decode"}

CallsOf(k) ==
    LET ofK(c) == c.el = k
    IN  SelectSeq(calls, ofK)

\* the text a strategy gives for element e (a fetch: whatever the server sent)
TextOf(e, op) ==
    CASE op = "decodeDataUri" -> {decodeDataUri(RemoteOf(e))}
      [] op = "fetch" -> {Some(b) : b \in ResponseBodies}
      [] op = "readLocal" -> {tryReadFileMaybe(LocalFiles, LocalPathOf(e))}
      [] op = "readStash" -> {tryReadFileMaybe(remotes, StashName(RemoteOf(e)))}
      [] op = "tryBase64Decode" -> {Some(tryBase64Decode(e.content))}

\* C3: the strategies are consulted in the order data: URI, http(s) fetch, local
\* file, stash entry named by the SHA-1 of the remote reference, inline content,
\* each at most once and only when the element's fields call for it; nothing is
\* consulted after a strategy gave text with the SVG root marker; and when the
\* resolver has returned, every applicable strategy before the last one consulted
\* was consulted and failed, and the result is the text of that last strategy.
C3_ResolutionOrder ==
    \A k \in 1..idx :
        LET ops == CallsOf(k)
            e == elements[k]
            returned == k < idx \/ pc \notin (Resolving \ {"process"})
        IN  /\ \A j \in 1..(Len(ops) - 1) :
                  Rank(ops[j].op) < Rank(ops[j + 1].op) /\ ~ops[j].hit
            /\ \A j \in 1..Len(ops) :
                  /\ ops[j].op \in Applicable(e)
                  /\ ops[j].op = "readStash" => ops[j].arg = StashName(RemoteOf(e))
            /\ returned =>
                  /\ ops # <<>>
                  /\ LET last == ops[Len(ops)]
                     IN  /\ last.hit \/ last.op = "tryBase64Decode"
                         /\ \A op \in Applicable(e) :
                               Rank(op) < Rank(last.op)
                                   => \E j \in 1..Len(ops) : ops[j].op = op
                         /\ (k = idx /\ pc = "process") => resolved \in TextOf(e, last.op)

\* the fetch failed, the local file was unusable, and the stash entry won
C3_Witness ==
    /\ pc = "process"
    /\ LET ops == CallsOf(idx)
       IN  /\ Len(ops) = 3
           /\ ops[1].op = "fetch" /\ ~ops[1].hit
           /\ ops[2].op = "readLocal" /\ ~ops[2].hit
           /\ ops[3].op = "readStash" /\ ops[3].hit
    /\ resolved = Some(SvgBadge)

UnusableLayout ==
    \/ layoutFile.status = "null"
    \/ /\ layoutFile.status = "object"
       /\ layoutFile.canvas.colorType # "string"
       /\ layoutFile.canvas.transparency # None

JustPlaced == pc = "loop" /\ idx >= 1 /\ PiecesOf(idx) # {}

\* the attributes of the root <svg> of the resolved text
RootAttrs == extractSvgParts(stripXmlProlog(sanitizeAnimationOverrides(resolved[1]))).attrs

\* target dimension, else the root's own attribute, else 100
ClaimedSide(target, attrs, name) ==
    IF target # None THEN target[1]
    ELSE IF name \in DOMAIN attrs THEN NumberOf(attrs[name])
    ELSE 100

\* C5: a nested <svg> has the element's target width (height) when the layout
\* gives one, otherwise the width (height) attribute of the fragment's root,
\* otherwise 100.
C5_EffectiveSize ==
    JustPlaced =>
        LET piece == pieces[Len(pieces)]
        IN  /\ piece.width = ClaimedSide(el.dimensions.width, RootAttrs, "width")
            /\ piece.height = ClaimedSide(el.dimensions.height, RootAttrs, "height")

\* the root's viewBox, else 0 0 W H of the root's width and height, else of the
\* target dimensions, else 0 0 100 100
ClaimedViewBox(dims, attrs) ==
    IF "viewBox" \in DOMAIN attrs THEN attrs["viewBox"]
    ELSE IF {"width", "height"} \subseteq DOMAIN attrs
    THEN "0 0 " \o attrs["width"] \o " " \o attrs["height"]
    ELSE IF dims.width # None /\ dims.height # None
    THEN "0 0 " \o ToString(dims.width[1]) \o " " \o ToString(dims.height[1])
    ELSE "0 0 100 100"

WellFormedSvg(text) ==
    LET t == stripXmlProlog(text)
        n == Len(t)
    IN  /\ n >= 4
        /\ t[1] = "<svg"
        /\ FirstIn(t, 2, GtTokens) \in 2..(n - 2)
        /\ t[FirstIn(t, 2, GtTokens)] = ">"
        /\ t[n - 1] = "</svg" /\ t[n] = ">"

\* an element with inline SVG and neither a remote reference nor a local path
InlineSvgOnly(e) ==
    /\ RemoteOf(e) = <<>>
    /\ LocalPathOf(e) = ""
    /\ WellFormedSvg(tryBase64Decode(e.content))

\* C7: for every element with valid inline SVG and no remote or local source the
\* written document holds a nested <svg> of that element whose x and y are the
\* element's position, 0 standing for an absent coordinate.
C7_InlinePosition ==
    outFile # None =>
        \A k \in 1..Len(elements) :
            InlineSvgOnly(elements[k]) =>
                \E j \in 2..Len(outFile[1].children) :
                    LET nested == outFile[1].children[j]
                        at == elements[k].position
                    IN  /\ nested.el = k
                        /\ nested.x = (IF at.x = None THEN 0 ELSE at.x[1])
                        /\ nested.y = (IF at.y = None THEN 0 ELSE at.y[1])

\* the text an inline content stands for: what it encodes, or itself
InlineText(content) ==
    IF Len(content) = 1 /\ content[1] \in Base64Payloads THEN Base64Text(content[1])
    ELSE content

\* the element just placed was resolved from its inline content
PlacedInline ==
    /\ JustPlaced
    /\ calls # <<>>
    /\ calls[Len(calls)].el = idx
    /\ calls[Len(calls)].op = "tryBase64Decode"

\* C13: inline content that is valid SVG text, plain or base64-encoded in either
\* alphabet, resolves to that text and is placed with the inner markup of that
\* text; plain SVG text is never replaced by a decoding of it.
C13_InlineRoundTrip ==
    (PlacedInline /\ WellFormedSvg(InlineText(el.content))) =>
        /\ resolved[1] = InlineText(el.content)
        /\ pieces[Len(pieces)].inner =
               extractSvgParts(stripXmlProlog(
                   sanitizeAnimationOverrides(InlineText(el.content)))).inner

\* the calls that are a fetch rejected for one of the given reasons
FetchesFailed(reasons) ==
    {j \in 1..Len(calls) : "failure" \in DOMAIN calls[j] /\ calls[j].failure \in reasons}

Timeouts == {"aborted before headers", "aborted in body"}

\* the resolver has returned for element k
Returned(k) == k < idx \/ (k = idx /\ pc \in {"process", "loop", "write", "exited"})

\* C14: when the timer of an element's fetch fires, before the headers or during
\* the body, or the response is not 2xx, only that fetch ends: nothing stays in
\* flight for the element, the run does not end in the fatal path because of it,
\* the resolver goes on with the local file, the stash and the inline content of
\* the same element, and the elements after it are processed.
C14_FetchDeadline ==
    \A j \in FetchesFailed(FetchFailures) :
        LET k == calls[j].el
        IN  /\ k \notin inflight
            /\ ExitedWith(2) => exitCode[1].cause \in {"output"}
            /\ j = Len(calls) => ((idx = k /\ pc \in {"local", "stash", "inline"}) \/ Returned(k))
            /\ j < Len(calls) => (calls[j + 1].el = k /\ Rank(calls[j + 1].op) > Rank("fetch"))
            /\ Returned(k) =>
                   \E n \in (j + 1)..Len(calls) :
                       /\ calls[n].el = k
                       /\ calls[n].hit \/ calls[n].op = "tryBase64Decode"
            /\ \A later \in (k + 1)..Finished :
                   Cardinality(PiecesOf(later)) + Cardinality(WarningsOf(later)) = 1
            /\ pc \in {"write", "exited"} => idx = Len(elements)

\* the timer fired during the body of the first element's fetch, the element was
\* placed from its inline content, and the second element was placed after it
C14_Witness ==
    /\ \E j \in FetchesFailed({"aborted in body"}) : calls[j].el = 1
    /\ PiecesOf(1) # {}
    /\ PiecesOf(2) # {}
    /\ ExitedWith(0)

White == <<"#", "f", "f", "f", "f", "f", "f">>

\* C8 as stated: for #ffffff with transparency 0.5 the fill is the string
\* rgba(255,255,255,0.5); without a transparency it is the configured colour.
C8_FillAsStated ==
    (header # None /\ layoutFile.canvas.colorType = "string") =>
        LET canvas == layoutFile.canvas
        IN  /\ (canvas.backgroundColor = White /\ canvas.transparency = Some(5))
                   => header[1].bgFill = "rgba(255,255,255,0.5)"
            /\ (canvas.backgroundColor # <<>> /\ canvas.transparency = None)
                   => header[1].bgFill = Join(canvas.backgroundColor)

\* an optional # and then three or six hexadecimal digits
IsHexColor(c) ==
    LET h == IF c # <<>> /\ c[1] = "#" THEN Tail(c) ELSE c
    IN  Len(h) \in {3, 6} /\ \A j \in 1..Len(h) : h[j] \in HexDigits

\* the red, green and blue of a hex colour
Components(c) ==
    LET h == IF c[1] = "#" THEN Tail(c) ELSE c
        d(j) == HexValue(h[j])
    IN  IF Len(h) = 3 THEN <<17 * d(1), 17 * d(2), 17 * d(3)>>
        ELSE <<16 * d(1) + d(2), 16 * d(3) + d(4), 16 * d(5) + d(6)>>

\* C8 (amended): with a numeric transparency a and a hex colour of components
\* r, g, b the fill is the string "rgba(r, g, b, a)", comma and space between the
\* components, so rgba(255, 255, 255, 0.5) for #ffffff and 0.5; without a
\* transparency the fill is the configured colour, #ffffff when none is configured.
C8_BackgroundFill ==
    (header # None /\ layoutFile.canvas.colorType = "string") =>
        LET canvas == layoutFile.canvas
            c == canvas.backgroundColor
        IN  /\ canvas.transparency = None
                   => header[1].bgFill = (IF c = <<>> THEN "#ffffff" ELSE Join(c))
            /\ (canvas.transparency # None /\ IsHexColor(c))
                   => header[1].bgFill =
                          "rgba(" \o ToString(Components(c)[1]) \o ", "
                          \o ToString(Components(c)[2]) \o ", "
                          \o ToString(Components(c)[3]) \o ", "
                          \o AlphaString(canvas.transparency[1]) \o ")"
            /\ (c = White /\ canvas.transparency = Some(5))
                   => header[1].bgFill = "rgba(255, 255, 255, 0.5)"

\* the header of canvas {800, 400, "#ffffff", 0.5} has been computed
C8_Witness ==
    /\ header # None
    /\ layoutFile.canvas = [DefaultCanvas EXCEPT !.transparency = Some(5)]
    /\ header[1].bgFill = "rgba(255, 255, 255, 0.5)"

\* C9: with a transparency a and a colour that is no hex colour the fill is white
\* at alpha a (however the components are spaced), never a non-numeric component.
C9_NonHexIsWhite ==
    (header # None /\ layoutFile.canvas.colorType = "string"
        /\ layoutFile.canvas.backgroundColor # <<>>
        /\ layoutFile.canvas.transparency # None
        /\ ~IsHexColor(Trim(layoutFile.canvas.backgroundColor))) =>
        LET a == AlphaString(layoutFile.canvas.transparency[1])
        IN  header[1].bgFill \in {"rgba(255,255,255," \o a \o ")",
                                  "rgba(255, 255, 255, " \o a \o ")"}

\* C19: the output file is written at most once, and only when every element has left
\* its piece or its warning; a run that ends fatally before the write (layout unreadable
\* or no JSON) has created no output directory and left an earlier output file as it was.
C19_WrittenOnce ==
    /\ outDisk.writes <= 1
    /\ outDisk.writes = 0 => outDisk \in OutDisks
    /\ outDisk.writes = 1 =>
           /\ pc = "exited"
           /\ exitCode[1].cause \in {"none", "output"}
           /\ idx = Len(elements)
           /\ \A k \in 1..Len(elements) : Cardinality(PiecesOf(k)) + Cardinality(WarningsOf(k)) = 1
    /\ (ExitedWith(2) /\ exitCode[1].cause = "layout") =>
           /\ outDisk.writes = 0
           /\ outFile = None
           /\ outDisk.file = "earlier" <=> outDisk.dir

\* the file of an earlier run was replaced by the document of a run in which one
\* element left a piece and another a warning
C19_Witness ==
    /\ ExitedWith(0)
    /\ outDisk = [dir |-> TRUE, file |-> "merged", writes |-> 1]
    /\ outFile = Some(Merged)
    /\ pieces # <<>>
    /\ warnings # <<>>

(***************************************************************************)
(* Properties of the prefetch run followed by the merge run                *)
(***************************************************************************)

PrefetchDone == pf.pc = "exited" /\ pf.exitCode = Some(0)

\* a reference the prefetch run can get SVG text for
Fetchable(r) ==
    \/ IsDataUri(r) /\ Usable(decodeDataUri(r))
    \/ r \in pf.online

PrefetchWarningsOf(k) == {j \in 1..Len(pf.warned) : pf.warned[j].el = k}

\* C12: after the prefetch run, every element whose reference (under remoteUrl or
\* remoteURL) is fetchable as SVG has the cache file of that reference, written
\* by the prefetch run, and the merge run's cache lookup for the element reads
\* that file and finds it.
C12_CacheHandOff ==
    PrefetchDone =>
        \A k \in 1..Len(elements) :
            LET r == RemoteOf(elements[k])
            IN  (HasRemote(elements[k]) /\ Fetchable(r) /\ PrefetchWarningsOf(k) = {}) =>
                    /\ \E j \in 1..Len(pf.saved) :
                           /\ pf.saved[j].file = StashName(r)
                           /\ StashName(r) \in DOMAIN remotes
                           /\ remotes[StashName(r)] = pf.saved[j].text
                    /\ \A c \in 1..Len(calls) :
                           (calls[c].el = k /\ calls[c].op = "readStash")
                               => (calls[c].arg = StashName(r) /\ calls[c].hit)

\* the elements a log names, in the order of the log
ElsOf(log) == [j \in 1..Len(log) |-> log[j].el]

NonDecreasing(q) == \A j \in 1..(Len(q) - 1) : q[j] <= q[j + 1]

Increasing(q) == \A j \in 1..(Len(q) - 1) : q[j] < q[j + 1]

\* the prefetch run is through with element k: it made no call for it, or it
\* saved its file or warned about it
PrefetchSettled(k) ==
    (\E j \in 1..Len(pf.fetches) : pf.fetches[j].el = k)
        => \/ \E j \in 1..Len(pf.saved) : pf.saved[j].el = k
           \/ PrefetchWarningsOf(k) # {}

\* C15: in the prefetch run and in the merge run the elements are taken in input
\* order, at most one fetch is in flight at any moment (that of the current
\* element), and an element is started only when every element before it has
\* left its piece or cache file or its warning.
C15_Sequential ==
    /\ Cardinality(inflight) + Cardinality(pf.inflight) <= 1
    /\ inflight = (IF pc \in {"fetching", "reading"} THEN {idx} ELSE {})
    /\ pf.inflight = (IF pf.pc = "fetching" THEN {pf.idx} ELSE {})
    /\ NonDecreasing(ElsOf(calls)) /\ Increasing(ElsOf(pieces)) /\ Increasing(ElsOf(warnings))
    /\ Increasing(ElsOf(pf.fetches)) /\ Increasing(ElsOf(pf.saved))
    /\ Increasing(ElsOf(pf.warned))
    /\ \A j \in 1..Len(calls) : calls[j].el <= idx
    /\ \A j \in 1..Len(pf.fetches) : pf.fetches[j].el <= pf.idx
    /\ \A k \in 1..(idx - 1) : Cardinality(PiecesOf(k)) + Cardinality(WarningsOf(k)) = 1
    /\ \A k \in 1..(pf.idx - 1) : PrefetchSettled(k)
    /\ pc # "waiting" => pf.pc = "exited"

\* the fetch of the second element is in flight in the merge run; the first
\* element has its piece, and the prefetch run fetched the two one after the other
C15_Witness ==
    /\ inflight = {2}
    /\ PiecesOf(1) # {}
    /\ Len(pf.fetches) = 2
    /\ Len(pf.saved) + Len(pf.warned) = 2

\* C16: no retries.  In a merge run every strategy is called at most once for an
\* element, so its reference is fetched at most once, an element is warned about
\* at most once and never taken up again; in a prefetch run every element's
\* reference is fetched or decoded at most once and saved or warned about once.
C16_NoRetries ==
    /\ \A i, j \in 1..Len(calls) :
           (calls[i].el = calls[j].el /\ calls[i].op = calls[j].op) => i = j
    /\ \A k \in 1..Len(elements) :
           /\ Cardinality(WarningsOf(k)) <= 1
           /\ Cardinality(PiecesOf(k)) <= 1
           /\ Cardinality({j \in 1..Len(pf.fetches) : pf.fetches[j].el = k}) <= 1
           /\ Cardinality(PrefetchWarningsOf(k))
                  + Cardinality({j \in 1..Len(pf.saved) : pf.saved[j].el = k}) <= 1
    /\ \A c, d \in 1..Len(calls) :
           (c < d /\ calls[c].el = calls[d].el)
               => \A m \in c..d : calls[m].el = calls[c].el
    /\ \A k \in Warned : k <= idx /\ (k = idx => pc \notin Resolving)
    /\ \A j \in 1..Len(pf.warned) :
           pf.warned[j].el <= pf.idx /\ (pf.warned[j].el = pf.idx => pf.pc # "fetching")

\* both runs ended; the fetch of the first element failed in both, once each, and
\* the element was warned about
C16_Witness ==
    /\ pc = "exited"
    /\ PrefetchWarningsOf(1) # {}
    /\ WarningsOf(1) # {}
    /\ \E j \in FetchesFailed(FetchFailures) : calls[j].el = 1

\* the cache files the prefetch run has written
SavedFiles == {pf.saved[j].file : j \in 1..Len(pf.saved)}

SavedOf(k) == {j \in 1..Len(pf.saved) : pf.saved[j].el = k}

\* the last text the prefetch run wrote to file f
LastSaved(f) ==
    pf.saved[CHOOSE j \in 1..Len(pf.saved) :
                 /\ pf.saved[j].file = f
                 /\ \A k \in 1..Len(pf.saved) : pf.saved[k].file = f => k <= j].text

MaxMarkupLen == 7

SanAlphabet == {"animation", ":", "0s", ";"}

\* markup of the generators the sanitizer was written for
SanSamples ==
    {<<"<style>", "*", " ", "{", " ", "animation", "-duration", ":", " ", "0s", " ", "x",
       ";", " ", "animation", "-delay", ":", " ", "0s", " ", "x", ";", " ", "}", " ",
       "spin", " ", "{", " ", "animation", ":", " ", "spin", " ", "2s", " ", "x", ";",
       " ", "}", "</style>">>,
     SvgStatic, SvgInlineAnim,
     <<"<style>", "spin", " ", "{", " ", "animation", "-duration", ":", " ", "0s", " ",
       "}", " ", "spin", " ", "{", " ", "animation", ":", " ", "spin", " ", "2s", ";",
       " ", "}", "</style>">>}

InitSanitize ==
    /\ sanRuns \in {<<m>> : m \in SeqsUpTo(SanAlphabet, MaxMarkupLen) \cup SanSamples}
    /\ layoutFile = BadLayout("missing")
    /\ remotes = [f \in {} |-> <<>>]
    /\ pc = "idle"
    /\ header = None
    /\ idx = 0
    /\ resolved = None
    /\ calls = <<>>
    /\ inflight = {}
    /\ pieces = <<>>
    /\ warnings = <<>>
    /\ outFile = None
    /\ outDisk = [dir |-> FALSE, file |-> "absent", writes |-> 0]
    /\ exitCode = None
    /\ parseRun = NoParseRun
    /\ pf = NoPrefetch

Sanitize ==
    /\ Len(sanRuns) \in 1..2
    /\ sanRuns' = Append(sanRuns, sanitizeAnimationOverrides(sanRuns[Len(sanRuns)]))
    /\ UNCHANGED <<mainVars, parseRun, pf>>

NextSanitize == Sanitize

\* C10: the sanitizer is idempotent: a second pass changes nothing.
C10_Idempotent == Len(sanRuns) = 3 => sanRuns[3] = sanRuns[2]

\* tokens of the markup that are no part of a CSS rule
TagTokens == {"<svg", "</svg", ">", "<style>", "</style>", "rect", "style='", "'"} \cup AttrTokens

IsTagToken(t) == t \in TagTokens

IsNonZeroTime(t) == t = "2s"

\* C11: the sanitizer removes nothing but zeroing universal blocks, zero
\* duration/delay declarations and zero-second shorthands: the markup outside the
\* CSS rules comes out as it went in, and so does every non-zero time of a rule
\* that is no universal block.
C11_OnlyOverridesRemoved ==
    Len(sanRuns) >= 2 =>
        /\ SelectSeq(sanRuns[2], IsTagToken) = SelectSeq(sanRuns[1], IsTagToken)
        /\ (\A j \in 1..Len(sanRuns[1]) : sanRuns[1][j] # "*")
               => SelectSeq(sanRuns[2], IsNonZeroTime) = SelectSeq(sanRuns[1], IsNonZeroTime)

SpecSanitize == InitSanitize /\ [][NextSanitize]_vars

(***************************************************************************)
(* The parser applied to bounded text                                      *)
(***************************************************************************)

MaxTextLen == 5

ParseAlphabet == {"<svg", ">", "</svg", "width='128'", "width='50'", " ", "<!--c-->"}

\* documents as the generators and hand-written layouts hold them
ParseSamples ==
    Fragments
    \cup {<<"<?xml", " ", "x", "?>", " ", "<svg", " ", "width='128'", " ", "height='32'", " ",
            "width='50'", ">", "rect", "</svg", ">", " ">>,
          <<"<svg", " ", "width='128'", ">", "rect", "</svg", ">", " ", "<!--c-->">>,
          <<"<svg", ">", "<svg", ">", "rect", "</svg", ">", "rect", "</svg", ">", "<!--c-->">>,
          <<"<?xml", " ", "<svg", ">", "?>", "rect">>,
          <<" ", "<?xml", " ", "x", "?>", "<svg", " ", "width='128'">>}

InitParse ==
    /\ parseRun \in {[text |-> t, out |-> None] :
                        t \in SeqsUpTo(ParseAlphabet, MaxTextLen) \cup ParseSamples}
    /\ layoutFile = BadLayout("missing")
    /\ remotes = [f \in {} |-> <<>>]
    /\ pc = "idle"
    /\ header = None
    /\ idx = 0
    /\ resolved = None
    /\ calls = <<>>
    /\ inflight = {}
    /\ pieces = <<>>
    /\ warnings = <<>>
    /\ outFile = None
    /\ outDisk = [dir |-> FALSE, file |-> "absent", writes |-> 0]
    /\ exitCode = None
    /\ sanRuns = <<>>
    /\ pf = NoPrefetch

Parse ==
    /\ parseRun.out = None
    /\ parseRun' = [parseRun EXCEPT !.out = Some(extractSvgParts(parseRun.text))]
    /\ UNCHANGED <<mainVars, sanRuns, pf>>

NextParse == Parse

\* the text the parser scans, and what it returned
Scanned == stripXmlProlog(parseRun.text)

Parsed == parseRun.out[1]

\* the root open tag of a text: <<position of <svg, position of its closing >>>
RootOpenTags(s) ==
    {<<i, g>> \in (1..Len(s)) \X (1..Len(s)) :
        /\ i < g
        /\ s[i] = "<svg"
        /\ s[g] \in GtTokens
        /\ \A k \in 1..(i - 1) : s[k] # "<svg"
        /\ \A k \in (i + 1)..(g - 1) : s[k] \notin GtTokens}

\* the positions where a root close tag starts after position g
CloseTagsAfter(s, g) == {j \in (g + 1)..(Len(s) - 1) : s[j] = "</svg" /\ s[j + 1] = ">"}

Last(S) == CHOOSE j \in S : \A k \in S : k <= j

\* C17: the inner markup is the text between the end of the root open tag and the
\* start of the final root close tag, whatever follows that close tag; the rest of
\* the document is taken only when there is no close tag.
C17_InnerMarkup ==
    (parseRun.out # None /\ RootOpenTags(Scanned) # {}) =>
        LET g == (CHOOSE t \in RootOpenTags(Scanned) : TRUE)[2]
            closes == CloseTagsAfter(Scanned, g)
        IN  /\ Parsed.ok
            /\ Parsed.inner = IF closes # {} THEN Slice(Scanned, g + 1, Last(closes) - 1)
                              ELSE Slice(Scanned, g + 1, Len(Scanned))

\* C18: the parser throws exactly when the text, its leading prolog stripped, has no
\* root open tag; otherwise it returns inner markup and an attribute map in which
\* every attribute of the open tag has the value of its last occurrence.
C18_ParseFailure ==
    parseRun.out # None =>
        /\ ~Parsed.ok <=> RootOpenTags(Scanned) = {}
        /\ Parsed.ok =>
               LET t == CHOOSE ig \in RootOpenTags(Scanned) : TRUE
                   at == {j \in (t[1] + 1)..(t[2] - 1) : Scanned[j] \in AttrTokens}
               IN  /\ DOMAIN Parsed = {"ok", "inner", "attrs"}
                   /\ DOMAIN Parsed.attrs = {AttrName(Scanned[j]) : j \in at}
                   /\ \A j \in at :
                          (\A k \in at : k > j => AttrName(Scanned[k]) # AttrName(Scanned[j]))
                              => Parsed.attrs[AttrName(Scanned[j])] = AttrValue(Scanned[j])

\* a text that holds the marker <svg but no open tag was rejected
C18_Witness ==
    /\ parseRun.out # None
    /\ ~Parsed.ok
    /\ HasSvgMarker(parseRun.text)
    /\ \E j \in 1..Len(parseRun.text) : parseRun.text[j] \in GtTokens

SpecParse == InitParse /\ [][NextParse]_vars

====
